---- MODULE Spec2Model ----
(***************************************************************************)
(* Model of backend/src/services/ai.service.ts (class AIService): the      *)
(* credential classifier, the model selector, the prompt sanitizer, the    *)
(* process runner (executeCLICommand) and the dispatcher (generate).       *)
(*                                                                         *)
(* Strings whose characters matter (credentials, prompts, captured output) *)
(* are sequences of one-character strings.  A prompt is a sequence of      *)
(* UTF-16 code unit classes: "c" an ordinary unit, "H" a high surrogate,   *)
(* "L" a low surrogate, "R" the replacement character U+FFFD.              *)
(***************************************************************************)
EXTENDS Integers, Sequences, FiniteSets, TLC

\* ------------------------------------------------------------------ bounds
MaxChunks == 2
MaxPromptLen == 4
MaxKeyTail == 2
MaxRequests == 2

\* ------------------------------------------------------- program constants
DEFAULT_OPENAI_MODEL == "codex-mini-latest"
DEFAULT_ANTHROPIC_MODEL == "claude-sonnet-4-20250514"
DEFAULT_OPENAI_API_MODEL == "gpt-4o-mini"
VALID_OPENAI_MODELS == {"codex-mini-latest", "o4-mini"}
VALID_ANTHROPIC_MODELS ==
  {"claude-sonnet-4-20250514", "claude-opus-4-20250514", "claude-3-7-sonnet-20250219"}

\* swagger.config.ts, ExecuteRequest.properties.model: the enum of the model
\* field and the defaults its description gives
DOCUMENTED_ANTHROPIC_MODELS ==
  {"claude-sonnet-4-20250514", "claude-opus-4-20250514", "claude-3.7-sonnet-20250219"}
DOCUMENTED_OPENAI_MODELS == {"codex-1", "codex-mini-latest"}
DOCUMENTED_ANTHROPIC_DEFAULT == "claude-sonnet-4-20250514"
DOCUMENTED_OPENAI_DEFAULT == "codex-1"

\* timeouts in milliseconds: the one both CLI strategies pass, and the runner's
\* own default
CLI_TIMEOUT == 1000000
DEFAULT_TIMEOUT == 300000

\* an absent (undefined) optional model
UNDEFINED == "<undefined>"

SK_ANT == <<"s", "k", "-", "a", "n", "t", "-">>
SK == <<"s", "k", "-">>

\* ------------------------------------------------------------ pure helpers
\* String.prototype.startsWith
StartsWith(s, p) == Len(s) >= Len(p) /\ SubSeq(s, 1, Len(p)) = p

validateAnthropicKey_ShortPrefix(apiKey) == StartsWith(apiKey, SK)

validateAnthropicKey(apiKey) == StartsWith(apiKey, SK_ANT)

validateOpenAIKey_NoExclusion(apiKey) == StartsWith(apiKey, SK)

validateOpenAIKey(apiKey) == StartsWith(apiKey, SK) /\ ~StartsWith(apiKey, SK_ANT)

\* detectAIProvider: the provider tag, or the thrown error
detectAIProvider(apiKey) ==
  IF validateAnthropicKey(apiKey) THEN [ok |-> TRUE, provider |-> "claudecode"]
  ELSE IF validateOpenAIKey(apiKey) THEN [ok |-> TRUE, provider |-> "codex"]
  ELSE [ok |-> FALSE, text |-> "Unknown API key format"]

\* JavaScript falsiness of an optional string: undefined or ""
Falsy(model) == model = UNDEFINED \/ model = ""

validateAndGetModel_NoAllowList(model, provider) ==
  LET defaultModel == IF provider = "openai" THEN DEFAULT_OPENAI_MODEL
                      ELSE DEFAULT_ANTHROPIC_MODEL
  IN IF Falsy(model) \/ model = "default" THEN defaultModel ELSE model

validateAndGetModel(model, provider) ==
  LET validModels == IF provider = "openai" THEN VALID_OPENAI_MODELS
                     ELSE VALID_ANTHROPIC_MODELS
      defaultModel == IF provider = "openai" THEN DEFAULT_OPENAI_MODEL
                      ELSE DEFAULT_ANTHROPIC_MODEL
  IN IF Falsy(model) \/ model = "default" THEN defaultModel
     ELSE IF model \notin validModels THEN defaultModel
     ELSE model

validateAndGetOpenAIModel(model) == validateAndGetModel(model, "openai")

validateAndGetOpenAIAPIModel(model) ==
  LET validModels == VALID_OPENAI_MODELS
      defaultModel == DEFAULT_OPENAI_API_MODEL
  IN IF Falsy(model) \/ model = "default" THEN defaultModel
     ELSE IF model \notin validModels THEN defaultModel
     ELSE model

validateAndGetAnthropicModel(model) == validateAndGetModel(model, "anthropic")

\* ---------------------------------------------------------------- sanitizer
IsHigh(u) == u = "H"
IsLow(u) == u = "L"

\* s.replace(re, '') with the g flag, matches being the positions at which re
\* matches one code unit: the units at the other positions, in order
Keep(s, matches) ==
  LET kept == {i \in 1..Len(s) : i \notin matches}
      nth(k) == CHOOSE i \in kept : Cardinality({j \in kept : j < i}) = k - 1
  IN [k \in 1..Cardinality(kept) |-> s[nth(k)]]

\* the positions of U+FFFD
MatchReplacement(s) == {i \in 1..Len(s) : s[i] = "R"}
\* /[\uD800-\uDBFF](?![\uDC00-\uDFFF])/g
MatchLoneHigh(s) ==
  {i \in 1..Len(s) : IsHigh(s[i]) /\ ~(i < Len(s) /\ IsLow(s[i + 1]))}
\* /(?<![\uD800-\uDBFF])[\uDC00-\uDFFF]/g
MatchLoneLow(s) ==
  {i \in 1..Len(s) : IsLow(s[i]) /\ ~(i > 1 /\ IsHigh(s[i - 1]))}

RemoveReplacement_FirstOnly(s) ==
  IF MatchReplacement(s) = {} THEN s
  ELSE Keep(s, {CHOOSE i \in MatchReplacement(s) : \A j \in MatchReplacement(s) : i <= j})

RemoveReplacement(s) == Keep(s, MatchReplacement(s))
RemoveLoneHigh(s) == Keep(s, MatchLoneHigh(s))

RemoveLoneLow_Skipped(s) == s

RemoveLoneLow(s) == Keep(s, MatchLoneLow(s))

\* Buffer.from(s, 'utf-8').toString('utf-8'): a surrogate pair is encoded as
\* one 4-byte sequence and decoded back to the pair; an unpaired surrogate is
\* encoded as EF BF BD and decoded as U+FFFD
RECURSIVE Utf8RoundTrip(_)
Utf8RoundTrip(s) ==
  IF s = <<>> THEN <<>>
  ELSE IF Len(s) >= 2 /\ IsHigh(s[1]) /\ IsLow(s[2])
       THEN <<s[1], s[2]>> \o Utf8RoundTrip(SubSeq(s, 3, Len(s)))
  ELSE IF IsHigh(s[1]) \/ IsLow(s[1])
       THEN <<"R">> \o Utf8RoundTrip(Tail(s))
  ELSE <<s[1]>> \o Utf8RoundTrip(Tail(s))

sanitizePrompt(prompt) ==
  Utf8RoundTrip(RemoveLoneLow(RemoveLoneHigh(RemoveReplacement(prompt))))

\* String.prototype.trim on captured output (" " is the only white space emitted)
RECURSIVE TrimStart(_)
TrimStart(s) == IF s # <<>> /\ s[1] = " " THEN TrimStart(Tail(s)) ELSE s
RECURSIVE TrimEnd(_)
TrimEnd(s) ==
  IF s # <<>> /\ s[Len(s)] = " " THEN TrimEnd(SubSeq(s, 1, Len(s) - 1)) ELSE s
Trim(s) == TrimEnd(TrimStart(s))

\* Math.ceil(n / 4)
CeilDiv4(n) == (n + 3) \div 4

\* ------------------------------------------------------------------- inputs
TaskTypes == {"code", "text", "image"}
Providers == {"codex", "claudecode", "gemini"}
KeySamples == {SK_ANT \o <<"x">>, SK \o <<"x">>, <<"n", "o", "t">>}
PromptSamples == {<<"c">>, <<"H", "R", "c">>, <<"R">>}
ModelSamples == {UNDEFINED, "claude-opus-4-20250514", "o4-mini"}
Requests ==
  [taskType : TaskTypes, aiProvider : Providers, apiKey : KeySamples,
   prompt : PromptSamples, model : ModelSamples]

\* chunks of bytes as the pipes deliver them: "b1" and "b2" are the lead byte and
\* the continuation byte of one two-byte character (decoded: "ch2"), every other
\* byte is ASCII
StdoutChunks == {<<"d", "o", "n", "e">>, <<" ">>, <<"b1">>, <<"b2">>}
StderrChunks == {<<"e">>}

\* data.toString(): UTF-8 decoding of one chunk on its own; a lead byte without
\* its continuation byte and a stray continuation byte each decode to U+FFFD
RECURSIVE Decode(_)
Decode(bytes) ==
  IF bytes = <<>> THEN <<>>
  ELSE IF Len(bytes) >= 2 /\ bytes[1] = "b1" /\ bytes[2] = "b2"
       THEN <<"ch2">> \o Decode(SubSeq(bytes, 3, Len(bytes)))
  ELSE IF bytes[1] \in {"b1", "b2"} THEN <<"R">> \o Decode(Tail(bytes))
  ELSE <<bytes[1]>> \o Decode(Tail(bytes))
ExitCodes == {0, 1}
\* the first argument of the 'close' listener: an exit code, or null when the
\* child was terminated by a signal
CloseArgs ==
  {[isNull |-> FALSE, code |-> c] : c \in ExitCodes} \cup {[isNull |-> TRUE, code |-> 0]}
\* errno of a failed spawn, reported as the exit code of the 'close' that follows
SpawnErrno == [isNull |-> FALSE, code |-> -2]
UsageSamples == {0, 3}

VARIABLES
  request,          \* the GenerateRequest being served
  pc,               \* position of generate: received, awaitCLI, awaitAPI, done
  outcome,          \* what generate returned or threw
  anthropic,        \* AIService.anthropic: the cached client (its apiKey) or none
  openai,           \* AIService.openai
  apiCalls,         \* calls made to the hosted completion endpoints
  sourceExists,     \* fs.existsSync(sourceClaudeFilePath)
  workspaceFile,    \* CLAUDE.md at the workspace root: absent, own, instructions
  claudeFileCopied, \* local flag of generateCodeWithClaudeCodeCLI
  cleanup,          \* the finally block: none, skipped, removed, failed
  spawned,          \* spawn() calls made
  child,            \* none, running, failed (could not start), closed
  stdout,           \* executeCLICommand: let stdout
  stderr,           \* executeCLICommand: let stderr
  isResolved,       \* executeCLICommand: let isResolved
  timer,            \* timeoutId: unset, armed, cleared, fired
  promise,          \* the promise returned by executeCLICommand
  settleCalls,      \* number of resolve()/reject() calls made on it
  killCount,        \* number of child.kill('SIGTERM') calls
  closeEmitted,     \* the 'close' listener has run
  errorEmitted,     \* the 'error' listener has run
  emitted,          \* the chunks the child has written to stdout and stderr
  exitStatus,       \* how the child terminated, as 'close' reports it
  peer,             \* a second, concurrent Claude code request on the workspace
  fn                \* a pure function under test: its input and its results

vars ==
  <<request, pc, outcome, anthropic, openai, apiCalls, sourceExists, workspaceFile,
    claudeFileCopied, cleanup, spawned, child, stdout, stderr, isResolved, timer,
    promise, settleCalls, killCount, closeEmitted, errorEmitted, emitted,
    exitStatus, peer, fn, peer>>

serviceVars == <<anthropic, openai, apiCalls>>
fsVars == <<sourceExists, workspaceFile, claudeFileCopied, cleanup>>
runnerVars ==
  <<spawned, child, stdout, stderr, isResolved, timer, promise, settleCalls,
    killCount, closeEmitted, errorEmitted, emitted, exitStatus>>

NoEmitted == [out |-> <<>>, err |-> <<>>]
NoExit == [known |-> FALSE, isNull |-> FALSE, code |-> 0]
NoPeer == [pc |-> "idle", claudeFileCopied |-> FALSE, child |-> "none"]

NoClient == [set |-> FALSE]
Pending == [state |-> "pending"]

\* new Error(text) with the values interpolated into its message
Err(text, carried) == [text |-> text, carried |-> carried]
\* catch (error) { throw new Error(`${wrap}: ${error.message}`) }
Wrapped(wrap, e) == [state |-> "error", class |-> "Error", wrap |-> wrap,
                     text |-> e.text, carried |-> e.carried]
Thrown(e) == [state |-> "error", class |-> "Error", wrap |-> "",
              text |-> e.text, carried |-> e.carried]
Returned(content, usage) == [state |-> "result", content |-> content, usage |-> usage]

\* the failure class of section 7 an error message stands for
ErrorKind(text) ==
  CASE text = "Unknown API key format" -> "UnrecognizedCredential"
    [] text \in {"Invalid Anthropic API key format. Must start with sk-ant-",
                 "Invalid OpenAI API key format. Must start with sk-"}
         -> "InvalidCredentialFormat"
    [] text = "Unsupported task type" -> "UnsupportedTaskKind"
    [] text = "Failed to start process" -> "SpawnFailure"
    [] text = "Command timeout after" -> "TimeoutExceeded"
    [] text \in {"Claude CLI failed with exit code", "Codex CLI failed with exit code"}
         -> "AgentExecutionFailed"
    [] text \in {"Anthropic API error", "Failed to generate text with OpenAI"}
         -> "ProviderAPIError"
    [] OTHER -> "Other"

\* a promise is settled by the first resolve()/reject() only
Settle(p, v) == IF p.state = "pending" THEN v ELSE p

Init ==
  /\ request \in Requests
  /\ pc = "received"
  /\ outcome = [state |-> "none"]
  /\ anthropic = NoClient
  /\ openai = NoClient
  /\ apiCalls = <<>>
  /\ sourceExists \in BOOLEAN
  /\ workspaceFile = "absent"
  /\ claudeFileCopied = FALSE
  /\ cleanup = "none"
  /\ spawned = <<>>
  /\ child = "none"
  /\ stdout = <<>>
  /\ stderr = <<>>
  /\ isResolved = FALSE
  /\ timer = "unset"
  /\ promise = Pending
  /\ settleCalls = 0
  /\ killCount = 0
  /\ closeEmitted = FALSE
  /\ errorEmitted = FALSE
  /\ emitted = NoEmitted
  /\ exitStatus = NoExit
  /\ peer = NoPeer
  /\ fn = [op |-> "none"]

\* ------------------------------------------------------- executeCLICommand
\* { ...base, ...over }: object spread, the later object wins
Overlay(base, over) ==
  [n \in DOMAIN base \cup DOMAIN over |-> IF n \in DOMAIN over THEN over[n] ELSE base[n]]

FIXED_FLAGS ==
  [CI |-> "true", NODE_ENV |-> "production", FORCE_COLOR |-> "0", NO_COLOR |-> "1"]

\* the env option given to spawn
ChildEnv(processEnv, optionsEnv) ==
  Overlay(Overlay(processEnv, optionsEnv), FIXED_FLAGS)

\* an options.input that is absent
NoInput == [given |-> FALSE, text |-> <<>>]

Input_Empty(text) == [given |-> TRUE, text |-> <<>>]

\* an options.input that is given
Input(text) == [given |-> TRUE, text |-> text]
\* options.input as a condition: absent and "" are both falsy
Truthy(input) == input.given /\ input.text # <<>>

\* the listeners executeCLICommand attaches to the child and its streams
LISTENERS == {"stdout.data", "stderr.data", "close", "error"}

RunnerStart_NoTimer(command, args, input, env, timeout, started) ==
  /\ spawned' = Append(spawned,
       [command |-> command, args |-> args, env |-> env,
        timeout |-> IF timeout = 0 THEN DEFAULT_TIMEOUT ELSE timeout,
        stdin |-> IF Truthy(input) THEN "pipe" ELSE "ignore",
        input |-> input,
        listeners |-> LISTENERS,
        written |-> IF Truthy(input) THEN input.text ELSE <<>>,
        ended |-> Truthy(input)])
  /\ child' = IF started THEN "running" ELSE "failed"
  /\ stdout' = <<>>
  /\ stderr' = <<>>
  /\ isResolved' = FALSE
  /\ timer' = "unset"
  /\ promise' = Pending
  /\ emitted' = NoEmitted
  /\ exitStatus' = NoExit
  /\ UNCHANGED <<settleCalls, killCount, closeEmitted, errorEmitted>>

\* the synchronous body of the promise executor: spawn, arm the timer, attach
\* the listeners, write the payload.  started is whether the executable
\* could be started; a failure to start is reported later by 'error'.
RunnerStart(command, args, input, env, timeout, started) ==
  /\ spawned' = Append(spawned,
       [command |-> command, args |-> args, env |-> env,
        timeout |-> IF timeout = 0 THEN DEFAULT_TIMEOUT ELSE timeout,
        stdin |-> IF Truthy(input) THEN "pipe" ELSE "ignore",
        input |-> input,
        listeners |-> LISTENERS,
        written |-> IF Truthy(input) THEN input.text ELSE <<>>,
        ended |-> Truthy(input)])
  /\ child' = IF started THEN "running" ELSE "failed"
  /\ stdout' = <<>>
  /\ stderr' = <<>>
  /\ isResolved' = FALSE
  /\ timer' = "armed"
  /\ promise' = Pending
  /\ emitted' = NoEmitted
  /\ exitStatus' = NoExit
  /\ UNCHANGED <<settleCalls, killCount, closeEmitted, errorEmitted>>

\* the await of generate is resumed before any further event is dispatched
MicrotaskPending == pc = "awaitCLI" /\ promise.state # "pending"

StdoutData_Overwrites(chunk) ==
  /\ child = "running" /\ ~MicrotaskPending
  /\ Len(emitted.out) < MaxChunks
  /\ emitted' = [emitted EXCEPT !.out = Append(@, chunk)]
  /\ stdout' = Decode(chunk)
  /\ UNCHANGED <<request, pc, outcome, serviceVars, fsVars, spawned, child, stderr,
                 isResolved, timer, promise, settleCalls, killCount, closeEmitted,
                 errorEmitted, exitStatus, fn, peer>>

\* child.stdout.on('data')
StdoutData(chunk) ==
  /\ child = "running" /\ ~MicrotaskPending
  /\ Len(emitted.out) < MaxChunks
  /\ emitted' = [emitted EXCEPT !.out = Append(@, chunk)]
  /\ stdout' = stdout \o Decode(chunk)
  /\ UNCHANGED <<request, pc, outcome, serviceVars, fsVars, spawned, child, stderr,
                 isResolved, timer, promise, settleCalls, killCount, closeEmitted,
                 errorEmitted, exitStatus, fn, peer>>

\* child.stderr.on('data')
StderrData(chunk) ==
  /\ child = "running" /\ ~MicrotaskPending
  /\ Len(emitted.err) < MaxChunks
  /\ emitted' = [emitted EXCEPT !.err = Append(@, chunk)]
  /\ stderr' = stderr \o Decode(chunk)
  /\ UNCHANGED <<request, pc, outcome, serviceVars, fsVars, spawned, child, stdout,
                 isResolved, timer, promise, settleCalls, killCount, closeEmitted,
                 errorEmitted, exitStatus, fn, peer>>

TimeoutFires_NoKill(killFails) ==
  /\ timer = "armed" /\ ~MicrotaskPending
  /\ timer' = "fired"
  /\ isResolved' = TRUE
  /\ settleCalls' = settleCalls + 1
  /\ promise' = Settle(promise,
       [state |-> "rejected", text |-> "Command timeout after",
        carried |-> [timeout |-> spawned[Len(spawned)].timeout]])
  /\ UNCHANGED <<request, pc, outcome, serviceVars, fsVars, spawned, child, stdout,
                 stderr, killCount, closeEmitted, errorEmitted, emitted, exitStatus,
                 fn, peer>>

\* the setTimeout callback.  killFails: child.kill reports an error, which it
\* does by emitting 'error' synchronously, i.e. after isResolved was set.
TimeoutFires(killFails) ==
  /\ timer = "armed" /\ ~MicrotaskPending
  /\ timer' = "fired"
  /\ IF ~isResolved
       THEN /\ isResolved' = TRUE
            /\ killCount' = killCount + 1
            /\ errorEmitted' = (errorEmitted \/ killFails)
            /\ settleCalls' = settleCalls + 1
            /\ promise' = Settle(promise,
                 [state |-> "rejected", text |-> "Command timeout after",
                  carried |-> [timeout |-> spawned[Len(spawned)].timeout]])
       ELSE UNCHANGED <<isResolved, killCount, errorEmitted, settleCalls, promise>>
  /\ UNCHANGED <<request, pc, outcome, serviceVars, fsVars, spawned, child, stdout,
                 stderr, closeEmitted, emitted, exitStatus, fn, peer>>

OrZero(a) == IF a.isNull THEN 0 ELSE a.code

\* child.on('close')
OnClose_Unguarded(exitCode) ==
  /\ \/ child = "running" /\ exitCode \in CloseArgs
     \/ child = "failed" /\ errorEmitted /\ exitCode = SpawnErrno
  /\ ~closeEmitted /\ ~MicrotaskPending
  /\ closeEmitted' = TRUE
  /\ child' = "closed"
  /\ isResolved' = TRUE
  /\ timer' = IF timer = "armed" THEN "cleared" ELSE timer
  /\ settleCalls' = settleCalls + 1
  /\ promise' = Settle(promise,
       [state |-> "fulfilled", stdout |-> stdout, stderr |-> stderr,
        exitCode |-> OrZero(exitCode)])
  /\ exitStatus' = [known |-> TRUE, isNull |-> exitCode.isNull, code |-> exitCode.code]
  /\ UNCHANGED <<request, pc, outcome, serviceVars, fsVars, spawned, stdout, stderr,
                 killCount, errorEmitted, emitted, fn, peer>>

OnClose(exitCode) ==
  /\ \/ child = "running" /\ exitCode \in CloseArgs
     \/ child = "failed" /\ errorEmitted /\ exitCode = SpawnErrno
  /\ ~closeEmitted /\ ~MicrotaskPending
  /\ closeEmitted' = TRUE
  /\ child' = "closed"
  /\ IF ~isResolved
       THEN /\ isResolved' = TRUE
            /\ timer' = IF timer = "armed" THEN "cleared" ELSE timer
            /\ settleCalls' = settleCalls + 1
            /\ promise' = Settle(promise,
                 [state |-> "fulfilled", stdout |-> stdout, stderr |-> stderr,
                  exitCode |-> OrZero(exitCode)])
       ELSE UNCHANGED <<isResolved, timer, settleCalls, promise>>
  /\ exitStatus' = [known |-> TRUE, isNull |-> exitCode.isNull, code |-> exitCode.code]
  /\ UNCHANGED <<request, pc, outcome, serviceVars, fsVars, spawned, stdout, stderr,
                 killCount, errorEmitted, emitted, fn, peer>>

OnError_NoClear ==
  /\ child = "failed" /\ ~errorEmitted /\ ~MicrotaskPending
  /\ errorEmitted' = TRUE
  /\ IF ~isResolved
       THEN /\ isResolved' = TRUE
            /\ settleCalls' = settleCalls + 1
            /\ promise' = Settle(promise,
                 [state |-> "rejected", text |-> "Failed to start process",
                  carried |-> [message |-> "spawn ENOENT"]])
            /\ UNCHANGED timer
       ELSE UNCHANGED <<isResolved, timer, settleCalls, promise>>
  /\ UNCHANGED <<request, pc, outcome, serviceVars, fsVars, spawned, child, stdout,
                 stderr, killCount, closeEmitted, emitted, exitStatus, fn, peer>>

\* child.on('error'), emitted when the executable could not be started
OnError ==
  /\ child = "failed" /\ ~errorEmitted /\ ~MicrotaskPending
  /\ errorEmitted' = TRUE
  /\ IF ~isResolved
       THEN /\ isResolved' = TRUE
            /\ timer' = IF timer = "armed" THEN "cleared" ELSE timer
            /\ settleCalls' = settleCalls + 1
            /\ promise' = Settle(promise,
                 [state |-> "rejected", text |-> "Failed to start process",
                  carried |-> [message |-> "spawn ENOENT"]])
       ELSE UNCHANGED <<isResolved, timer, settleCalls, promise>>
  /\ UNCHANGED <<request, pc, outcome, serviceVars, fsVars, spawned, child, stdout,
                 stderr, killCount, closeEmitted, emitted, exitStatus, fn, peer>>

\* ------------------------------------------------------------- dispatcher
\* the finally block of generateCodeWithClaudeCodeCLI; removed says whether
\* fs.unlinkSync succeeded
Finally_Skipped(removed) ==
  /\ cleanup' = "skipped"
  /\ UNCHANGED workspaceFile

Finally(removed) ==
  IF claudeFileCopied /\ workspaceFile # "absent"
    THEN /\ workspaceFile' = IF removed THEN "absent" ELSE workspaceFile
         /\ cleanup' = IF removed THEN "removed" ELSE "failed"
    ELSE /\ cleanup' = "skipped"
         /\ UNCHANGED workspaceFile

GenerateCodeClaude_StagingFatal(copied, started) ==
  /\ pc = "received"
  /\ request.taskType = "code" /\ request.aiProvider = "claudecode"
  /\ IF ~validateAnthropicKey(request.apiKey)
       THEN /\ outcome' = Wrapped("Claude Code CLI error",
                 Err("Invalid Anthropic API key format. Must start with sk-ant-",
                     [none |-> TRUE]))
            /\ pc' = "done"
            /\ cleanup' = "skipped"
            /\ UNCHANGED <<workspaceFile, claudeFileCopied, runnerVars>>
       ELSE IF sourceExists /\ ~copied
       THEN /\ outcome' = Wrapped("Claude Code CLI error",
                 Err("Failed to copy CLAUDE.md", [none |-> TRUE]))
            /\ pc' = "done"
            /\ cleanup' = "skipped"
            /\ UNCHANGED <<workspaceFile, claudeFileCopied, runnerVars>>
       ELSE LET sanitizedPrompt == sanitizePrompt(request.prompt)
                selectedModel == validateAndGetAnthropicModel(request.model)
                staged == sourceExists /\ copied
            IN /\ claudeFileCopied' = staged
               /\ workspaceFile' = IF staged THEN "instructions" ELSE workspaceFile
               /\ RunnerStart("claude", <<"-p", "--dangerously-skip-permissions">>,
                    Input(sanitizedPrompt),
                    [ANTHROPIC_API_KEY |-> request.apiKey,
                     ANTHROPIC_MODEL |-> selectedModel],
                    CLI_TIMEOUT, started)
               /\ pc' = "awaitCLI"
               /\ UNCHANGED <<outcome, cleanup>>
  /\ UNCHANGED <<request, serviceVars, sourceExists, fn, peer>>

\* generate -> generateCode -> generateCodeWithClaudeCodeCLI, up to its await.
\* copied: readFileSync and writeFileSync both succeeded.
GenerateCodeClaude(copied, started) ==
  /\ pc = "received"
  /\ request.taskType = "code" /\ request.aiProvider = "claudecode"
  /\ IF ~validateAnthropicKey(request.apiKey)
       THEN /\ outcome' = Wrapped("Claude Code CLI error",
                 Err("Invalid Anthropic API key format. Must start with sk-ant-",
                     [none |-> TRUE]))
            /\ pc' = "done"
            /\ cleanup' = "skipped"
            /\ UNCHANGED <<workspaceFile, claudeFileCopied, runnerVars>>
       ELSE LET sanitizedPrompt == sanitizePrompt(request.prompt)
                selectedModel == validateAndGetAnthropicModel(request.model)
                staged == sourceExists /\ copied
            IN /\ claudeFileCopied' = staged
               /\ workspaceFile' = IF staged THEN "instructions" ELSE workspaceFile
               /\ RunnerStart("claude", <<"-p", "--dangerously-skip-permissions">>,
                    Input(sanitizedPrompt),
                    [ANTHROPIC_API_KEY |-> request.apiKey,
                     ANTHROPIC_MODEL |-> selectedModel],
                    CLI_TIMEOUT, started)
               /\ pc' = "awaitCLI"
               /\ UNCHANGED <<outcome, cleanup>>
  /\ UNCHANGED <<request, serviceVars, sourceExists, fn, peer>>

ResumeCodeClaude_CleanupEscalates(removed) ==
  /\ pc = "awaitCLI" /\ request.aiProvider = "claudecode"
  /\ promise.state # "pending"
  /\ pc' = "done"
  /\ outcome' =
       IF claudeFileCopied /\ workspaceFile # "absent" /\ ~removed
         THEN Thrown(Err("Failed to clean up CLAUDE.md", [none |-> TRUE]))
       ELSE IF promise.state = "rejected"
         THEN Wrapped("Claude Code CLI error", Err(promise.text, promise.carried))
       ELSE IF promise.exitCode # 0
         THEN Wrapped("Claude Code CLI error",
                Err("Claude CLI failed with exit code",
                    [exitCode |-> promise.exitCode, stderr |-> promise.stderr]))
       ELSE LET estimatedInputTokens == CeilDiv4(Len(request.prompt))
                estimatedOutputTokens == CeilDiv4(Len(promise.stdout))
            IN Returned(Trim(promise.stdout),
                 [inputTokens |-> estimatedInputTokens,
                  outputTokens |-> estimatedOutputTokens,
                  totalTokens |-> estimatedInputTokens + estimatedOutputTokens])
  /\ Finally(removed)
  /\ UNCHANGED <<request, serviceVars, sourceExists, claudeFileCopied, runnerVars, fn, peer>>

\* the rest of generateCodeWithClaudeCodeCLI, once the runner's promise is settled
ResumeCodeClaude(removed) ==
  /\ pc = "awaitCLI" /\ request.aiProvider = "claudecode"
  /\ promise.state # "pending"
  /\ pc' = "done"
  /\ outcome' =
       IF promise.state = "rejected"
         THEN Wrapped("Claude Code CLI error", Err(promise.text, promise.carried))
       ELSE IF promise.exitCode # 0
         THEN Wrapped("Claude Code CLI error",
                Err("Claude CLI failed with exit code",
                    [exitCode |-> promise.exitCode, stderr |-> promise.stderr]))
       ELSE LET estimatedInputTokens == CeilDiv4(Len(request.prompt))
                estimatedOutputTokens == CeilDiv4(Len(promise.stdout))
            IN Returned(Trim(promise.stdout),
                 [inputTokens |-> estimatedInputTokens,
                  outputTokens |-> estimatedOutputTokens,
                  totalTokens |-> estimatedInputTokens + estimatedOutputTokens])
  /\ Finally(removed)
  /\ UNCHANGED <<request, serviceVars, sourceExists, claudeFileCopied, runnerVars, fn, peer>>

GenerateCodeCodex_KeyOnStdin(started) ==
  /\ pc = "received"
  /\ request.taskType = "code" /\ request.aiProvider = "codex"
  /\ IF ~validateOpenAIKey(request.apiKey)
       THEN /\ outcome' = Wrapped("Codex CLI error",
                 Err("Invalid OpenAI API key format. Must start with sk-",
                     [none |-> TRUE]))
            /\ pc' = "done"
            /\ UNCHANGED runnerVars
       ELSE LET sanitizedPrompt == sanitizePrompt(request.prompt)
                selectedModel == validateAndGetOpenAIModel(request.model)
                codexArgs == <<"-q", "-a", "auto-edit">>
                             \o (IF selectedModel # "" THEN <<"-m", selectedModel>>
                                 ELSE <<>>)
                             \o <<sanitizedPrompt>>
            IN /\ RunnerStart("codex", codexArgs, Input(request.apiKey),
                    [OPENAI_API_KEY |-> request.apiKey], CLI_TIMEOUT, started)
               /\ pc' = "awaitCLI"
               /\ UNCHANGED outcome
  /\ UNCHANGED <<request, serviceVars, fsVars, fn, peer>>

\* generate -> generateCode -> generateCodeWithCodexCLI, up to its await
GenerateCodeCodex(started) ==
  /\ pc = "received"
  /\ request.taskType = "code" /\ request.aiProvider = "codex"
  /\ IF ~validateOpenAIKey(request.apiKey)
       THEN /\ outcome' = Wrapped("Codex CLI error",
                 Err("Invalid OpenAI API key format. Must start with sk-",
                     [none |-> TRUE]))
            /\ pc' = "done"
            /\ UNCHANGED runnerVars
       ELSE LET sanitizedPrompt == sanitizePrompt(request.prompt)
                selectedModel == validateAndGetOpenAIModel(request.model)
                codexArgs == <<"-q", "-a", "auto-edit">>
                             \o (IF selectedModel # "" THEN <<"-m", selectedModel>>
                                 ELSE <<>>)
                             \o <<sanitizedPrompt>>
            IN /\ RunnerStart("codex", codexArgs, NoInput,
                    [OPENAI_API_KEY |-> request.apiKey], CLI_TIMEOUT, started)
               /\ pc' = "awaitCLI"
               /\ UNCHANGED outcome
  /\ UNCHANGED <<request, serviceVars, fsVars, fn, peer>>

ResumeCodeCodex_IgnoresExitCode ==
  /\ pc = "awaitCLI" /\ request.aiProvider = "codex"
  /\ promise.state # "pending"
  /\ pc' = "done"
  /\ outcome' =
       IF promise.state = "rejected"
         THEN Wrapped("Codex CLI error", Err(promise.text, promise.carried))
       ELSE Returned(promise.stdout,
              [inputTokens |-> 0, outputTokens |-> 0, totalTokens |-> 0])
  /\ UNCHANGED <<request, serviceVars, fsVars, runnerVars, fn, peer>>

\* the rest of generateCodeWithCodexCLI
ResumeCodeCodex ==
  /\ pc = "awaitCLI" /\ request.aiProvider = "codex"
  /\ promise.state # "pending"
  /\ pc' = "done"
  /\ outcome' =
       IF promise.state = "rejected"
         THEN Wrapped("Codex CLI error", Err(promise.text, promise.carried))
       ELSE IF promise.exitCode # 0
         THEN Wrapped("Codex CLI error",
                Err("Codex CLI failed with exit code",
                    [exitCode |-> promise.exitCode, stderr |-> promise.stderr,
                     stdout |-> promise.stdout]))
       ELSE Returned(promise.stdout,
              [inputTokens |-> 0, outputTokens |-> 0, totalTokens |-> 0])
  /\ UNCHANGED <<request, serviceVars, fsVars, runnerVars, fn, peer>>

\* this.initAnthropic / this.initOpenAI: the client is built on first use only
InitClient(client, apiKey) == IF ~client.set THEN [set |-> TRUE, apiKey |-> apiKey] ELSE client

\* generate -> generateText -> generateTextWithClaude, up to its await
GenerateTextClaude ==
  /\ pc = "received"
  /\ request.taskType = "text" /\ request.aiProvider = "claudecode"
  /\ anthropic' = InitClient(anthropic, request.apiKey)
  /\ apiCalls' = Append(apiCalls,
       [endpoint |-> "anthropic", apiKey |-> anthropic'.apiKey,
        model |-> validateAndGetAnthropicModel(request.model), status |-> "pending"])
  /\ pc' = "awaitAPI"
  /\ UNCHANGED <<request, outcome, openai, fsVars, runnerVars, fn, peer>>

\* generate -> generateText -> generateTextWithOpenAI, up to its await
GenerateTextOpenAI ==
  /\ pc = "received"
  /\ request.taskType = "text" /\ request.aiProvider = "codex"
  /\ openai' = InitClient(openai, request.apiKey)
  /\ apiCalls' = Append(apiCalls,
       [endpoint |-> "openai", apiKey |-> openai'.apiKey,
        model |-> validateAndGetOpenAIAPIModel(request.model), status |-> "pending"])
  /\ pc' = "awaitAPI"
  /\ UNCHANGED <<request, outcome, anthropic, fsVars, runnerVars, fn, peer>>

\* the hosted endpoint answers: the rest of generateTextWithClaude / ...WithOpenAI.
\* i, o, t are the usage counts the provider reports.
ApiReturns(i, o, t) ==
  /\ pc = "awaitAPI"
  /\ pc' = "done"
  /\ outcome' =
       IF request.aiProvider = "claudecode"
         THEN Returned(<<"t">>,
                [inputTokens |-> i, outputTokens |-> o, totalTokens |-> i + o])
         ELSE Returned(<<"t">>,
                [inputTokens |-> i, outputTokens |-> o, totalTokens |-> t])
  /\ apiCalls' = [apiCalls EXCEPT ![Len(apiCalls)].status = "ok"]
  /\ UNCHANGED <<request, anthropic, openai, fsVars, runnerVars, fn, peer>>

\* the hosted endpoint call throws
ApiThrows ==
  /\ pc = "awaitAPI"
  /\ pc' = "done"
  /\ outcome' =
       IF request.aiProvider = "claudecode"
         THEN Wrapped("Anthropic API error", Err("Anthropic API error", [none |-> TRUE]))
         ELSE Wrapped("Failed to generate text with OpenAI",
                Err("Failed to generate text with OpenAI", [none |-> TRUE]))
  /\ apiCalls' = [apiCalls EXCEPT ![Len(apiCalls)].status = "error"]
  /\ UNCHANGED <<request, anthropic, openai, fsVars, runnerVars, fn, peer>>

GenerateUnsupported_ProviderFirst ==
  /\ pc = "received"
  /\ \/ request.taskType \notin {"code", "text"}
     \/ request.aiProvider \notin {"claudecode", "codex"}
  /\ pc' = "done"
  /\ outcome' =
       IF request.aiProvider \notin {"claudecode", "codex"}
         THEN IF request.taskType = "code"
                THEN Thrown(Err("Unsupported AI provider for code generation",
                       [aiProvider |-> request.aiProvider]))
                ELSE Thrown(Err("Unsupported AI provider for text generation",
                       [aiProvider |-> request.aiProvider]))
         ELSE Thrown(Err("Unsupported task type", [taskType |-> request.taskType]))
  /\ UNCHANGED <<request, serviceVars, fsVars, runnerVars, fn, peer>>

\* the throw statements of generate, generateCode and generateText
GenerateUnsupported ==
  /\ pc = "received"
  /\ \/ request.taskType \notin {"code", "text"}
     \/ request.aiProvider \notin {"claudecode", "codex"}
  /\ pc' = "done"
  /\ outcome' =
       IF request.taskType \notin {"code", "text"}
         THEN Thrown(Err("Unsupported task type", [taskType |-> request.taskType]))
       ELSE IF request.taskType = "code"
         THEN Thrown(Err("Unsupported AI provider for code generation",
                [aiProvider |-> request.aiProvider]))
       ELSE Thrown(Err("Unsupported AI provider for text generation",
                [aiProvider |-> request.aiProvider]))
  /\ UNCHANGED <<request, serviceVars, fsVars, runnerVars, fn, peer>>

\* ------------------------------------------- the pure functions on their own
SeqsUpTo(A, n) == UNION {[1..k -> A] : k \in 0..n}

KeyAlphabet == {"a", "-", "s", "x"}
\* every prefix of "sk-ant-" followed by a short tail
Credentials ==
  {SubSeq(SK_ANT, 1, n) \o t : n \in 0..Len(SK_ANT), t \in SeqsUpTo(KeyAlphabet, MaxKeyTail)}

CodeUnits == {"c", "H", "L", "R"}
Prompts == SeqsUpTo(CodeUnits, MaxPromptLen)

ModelInputs ==
  {UNDEFINED, "", "default", "Default", "bogus", "gpt-4", "gpt-4o-mini", "codex-1",
   "claude-3.7-sonnet-20250219"} \cup VALID_OPENAI_MODELS \cup VALID_ANTHROPIC_MODELS
Modes == {"cli-anthropic", "cli-openai", "api-anthropic", "api-openai"}

\* the selector each strategy calls
Select(mode, model) ==
  CASE mode = "cli-anthropic" -> validateAndGetAnthropicModel(model)
    [] mode = "cli-openai" -> validateAndGetOpenAIModel(model)
    [] mode = "api-anthropic" -> validateAndGetAnthropicModel(model)
    [] mode = "api-openai" -> validateAndGetOpenAIAPIModel(model)

EnvNames == {"PATH", "OPENAI_API_KEY", "CI", "NODE_ENV"}
\* environments setting some of the names, all to the same value
EnvsOf(value) == UNION {[names -> {value}] : names \in SUBSET EnvNames}

PureInputs ==
  {[op |-> "classify", arg |-> k, step |-> 0] : k \in Credentials}
  \cup {[op |-> "env", arg |-> pe, options |-> oe, step |-> 0] :
          pe \in EnvsOf("parent"), oe \in EnvsOf("caller")}
  \cup {[op |-> "select", arg |-> m, mode |-> d, step |-> 0] : m \in ModelInputs, d \in Modes}
  \cup {[op |-> "sanitize", arg |-> x, step |-> 0] : x \in Prompts}

InitPure ==
  /\ fn \in PureInputs
  /\ pc = "idle"
  /\ request = [taskType |-> "none"]
  /\ outcome = [state |-> "none"]
  /\ anthropic = NoClient
  /\ openai = NoClient
  /\ apiCalls = <<>>
  /\ sourceExists = FALSE
  /\ workspaceFile = "absent"
  /\ claudeFileCopied = FALSE
  /\ cleanup = "none"
  /\ spawned = <<>>
  /\ child = "none"
  /\ stdout = <<>>
  /\ stderr = <<>>
  /\ isResolved = FALSE
  /\ timer = "unset"
  /\ promise = Pending
  /\ settleCalls = 0
  /\ killCount = 0
  /\ closeEmitted = FALSE
  /\ errorEmitted = FALSE
  /\ emitted = NoEmitted
  /\ exitStatus = NoExit
  /\ peer = NoPeer

\* validateAnthropicKey, validateOpenAIKey and detectAIProvider on one credential
ApplyDetect ==
  /\ fn.op = "classify" /\ fn.step = 0
  /\ fn' = [op |-> "classify", arg |-> fn.arg, step |-> 1,
            anthropicKey |-> validateAnthropicKey(fn.arg),
            openAIKey |-> validateOpenAIKey(fn.arg),
            ret |-> detectAIProvider(fn.arg)]
  /\ UNCHANGED <<request, pc, outcome, serviceVars, fsVars, runnerVars, peer>>

\* one of the four selectors on one model
ApplySelect ==
  /\ fn.op = "select" /\ fn.step = 0
  /\ fn' = [op |-> "select", arg |-> fn.arg, mode |-> fn.mode, step |-> 1,
            ret |-> Select(fn.mode, fn.arg)]
  /\ UNCHANGED <<request, pc, outcome, serviceVars, fsVars, runnerVars, peer>>

\* sanitizePrompt on a prompt
ApplySanitize ==
  /\ fn.op = "sanitize" /\ fn.step = 0
  /\ fn' = [op |-> "sanitize", arg |-> fn.arg, step |-> 1, ret |-> sanitizePrompt(fn.arg)]
  /\ UNCHANGED <<request, pc, outcome, serviceVars, fsVars, runnerVars, peer>>

\* sanitizePrompt on its own output
ApplySanitizeAgain ==
  /\ fn.op = "sanitize" /\ fn.step = 1
  /\ fn' = [op |-> "sanitize", arg |-> fn.arg, step |-> 2, ret |-> fn.ret,
            ret2 |-> sanitizePrompt(fn.ret)]
  /\ UNCHANGED <<request, pc, outcome, serviceVars, fsVars, runnerVars, peer>>

\* the environment executeCLICommand builds for the child
ApplyEnv ==
  /\ fn.op = "env" /\ fn.step = 0
  /\ fn' = [op |-> "env", arg |-> fn.arg, options |-> fn.options, step |-> 1,
            ret |-> ChildEnv(fn.arg, fn.options)]
  /\ UNCHANGED <<request, pc, outcome, serviceVars, fsVars, runnerVars, peer>>

NextPure ==
  \/ ApplyEnv
  \/ ApplyDetect
  \/ ApplySelect
  \/ ApplySanitize
  \/ ApplySanitizeAgain

SpecPure == InitPure /\ [][NextPure]_vars

\* ------------------------------ successive text requests on one AIService
TextKeys == {SK_ANT \o <<"x">>, SK_ANT \o <<"y">>, SK \o <<"x">>, SK \o <<"y">>}
TextRequests ==
  [taskType : {"text"}, aiProvider : {"claudecode", "codex"}, apiKey : TextKeys,
   prompt : {<<"c">>}, model : {UNDEFINED}]

InitText ==
  /\ request \in TextRequests
  /\ pc = "received"
  /\ outcome = [state |-> "none"]
  /\ anthropic = NoClient
  /\ openai = NoClient
  /\ apiCalls = <<>>
  /\ sourceExists = FALSE
  /\ workspaceFile = "absent"
  /\ claudeFileCopied = FALSE
  /\ cleanup = "none"
  /\ spawned = <<>>
  /\ child = "none"
  /\ stdout = <<>>
  /\ stderr = <<>>
  /\ isResolved = FALSE
  /\ timer = "unset"
  /\ promise = Pending
  /\ settleCalls = 0
  /\ killCount = 0
  /\ closeEmitted = FALSE
  /\ errorEmitted = FALSE
  /\ emitted = NoEmitted
  /\ exitStatus = NoExit
  /\ peer = NoPeer
  /\ fn = [op |-> "none"]

\* the next call of generate on the same AIService instance, once the previous
\* one has returned
NextRequest(r) ==
  /\ pc = "done"
  /\ Len(apiCalls) < MaxRequests
  /\ request' = r
  /\ pc' = "received"
  /\ outcome' = [state |-> "none"]
  /\ UNCHANGED <<serviceVars, fsVars, runnerVars, fn, peer>>

NextText ==
  \/ GenerateTextClaude
  \/ GenerateTextOpenAI
  \/ \E i \in UsageSamples, o \in UsageSamples, t \in UsageSamples : ApiReturns(i, o, t)
  \/ ApiThrows
  \/ \E r \in TextRequests : NextRequest(r)

SpecText == InitText /\ [][NextText]_vars

\* --------------------- two concurrent Claude code requests on one workspace
\* The second request runs the same generateCodeWithClaudeCodeCLI; of its state
\* only its position, its claudeFileCopied flag and its child are kept.
ConcRequest ==
  [taskType |-> "code", aiProvider |-> "claudecode", apiKey |-> SK_ANT \o <<"x">>,
   prompt |-> <<"c">>, model |-> UNDEFINED]

InitConc ==
  /\ request = ConcRequest
  /\ pc = "received"
  /\ outcome = [state |-> "none"]
  /\ anthropic = NoClient
  /\ openai = NoClient
  /\ apiCalls = <<>>
  /\ sourceExists = TRUE
  /\ workspaceFile = "absent"
  /\ claudeFileCopied = FALSE
  /\ cleanup = "none"
  /\ spawned = <<>>
  /\ child = "none"
  /\ stdout = <<>>
  /\ stderr = <<>>
  /\ isResolved = FALSE
  /\ timer = "unset"
  /\ promise = Pending
  /\ settleCalls = 0
  /\ killCount = 0
  /\ closeEmitted = FALSE
  /\ errorEmitted = FALSE
  /\ emitted = NoEmitted
  /\ exitStatus = NoExit
  /\ peer = NoPeer
  /\ fn = [op |-> "none"]

\* the second request, up to its await: staging and spawn
PeerGenerate(copied) ==
  /\ peer.pc = "idle"
  /\ LET staged == sourceExists /\ copied
     IN /\ peer' = [pc |-> "awaitCLI", claudeFileCopied |-> staged, child |-> "running"]
        /\ workspaceFile' = IF staged THEN "instructions" ELSE workspaceFile
  /\ UNCHANGED <<request, pc, outcome, serviceVars, sourceExists, claudeFileCopied,
                 cleanup, runnerVars, fn>>

\* the second request's runner settles (its child closed, or its timer fired
\* and the child may go on running) and its finally block runs
PeerReturns(closed, removed) ==
  /\ peer.pc = "awaitCLI"
  /\ peer' = [peer EXCEPT !.pc = "done",
                          !.child = IF closed THEN "closed" ELSE "running"]
  /\ workspaceFile' =
       IF peer.claudeFileCopied /\ workspaceFile # "absent" /\ removed
         THEN "absent" ELSE workspaceFile
  /\ UNCHANGED <<request, pc, outcome, serviceVars, sourceExists, claudeFileCopied,
                 cleanup, runnerVars, fn>>

NextConc ==
  \/ \E copied \in BOOLEAN, started \in BOOLEAN : GenerateCodeClaude(copied, started)
  \/ \E removed \in BOOLEAN : ResumeCodeClaude(removed)
  \/ \E chunk \in StdoutChunks : StdoutData(chunk)
  \/ \E chunk \in StderrChunks : StderrData(chunk)
  \/ \E killFails \in BOOLEAN : TimeoutFires(killFails)
  \/ \E exitCode \in CloseArgs \cup {SpawnErrno} : OnClose(exitCode)
  \/ OnError
  \/ \E copied \in BOOLEAN : PeerGenerate(copied)
  \/ \E closed \in BOOLEAN, removed \in BOOLEAN : PeerReturns(closed, removed)

SpecConc == InitConc /\ [][NextConc]_vars

Next ==
  \/ \E copied \in BOOLEAN, started \in BOOLEAN : GenerateCodeClaude(copied, started)
  \/ \E removed \in BOOLEAN : ResumeCodeClaude(removed)
  \/ \E started \in BOOLEAN : GenerateCodeCodex(started)
  \/ ResumeCodeCodex
  \/ GenerateTextClaude
  \/ GenerateTextOpenAI
  \/ \E i \in UsageSamples, o \in UsageSamples, t \in UsageSamples : ApiReturns(i, o, t)
  \/ ApiThrows
  \/ GenerateUnsupported
  \/ \E chunk \in StdoutChunks : StdoutData(chunk)
  \/ \E chunk \in StderrChunks : StderrData(chunk)
  \/ \E killFails \in BOOLEAN : TimeoutFires(killFails)
  \/ \E exitCode \in CloseArgs \cup {SpawnErrno} : OnClose(exitCode)
  \/ OnError

Spec == Init /\ [][Next]_vars

\* a request on a workspace that has a CLAUDE.md of its own at its root
InitOwn ==
  /\ request \in Requests
  /\ pc = "received"
  /\ outcome = [state |-> "none"]
  /\ anthropic = NoClient
  /\ openai = NoClient
  /\ apiCalls = <<>>
  /\ sourceExists \in BOOLEAN
  /\ workspaceFile = "own"
  /\ claudeFileCopied = FALSE
  /\ cleanup = "none"
  /\ spawned = <<>>
  /\ child = "none"
  /\ stdout = <<>>
  /\ stderr = <<>>
  /\ isResolved = FALSE
  /\ timer = "unset"
  /\ promise = Pending
  /\ settleCalls = 0
  /\ killCount = 0
  /\ closeEmitted = FALSE
  /\ errorEmitted = FALSE
  /\ emitted = NoEmitted
  /\ exitStatus = NoExit
  /\ peer = NoPeer
  /\ fn = [op |-> "none"]

SpecOwn == InitOwn /\ [][Next]_vars

\* the timer started by setTimeout fires unless it is cleared first
LiveSpec == Spec /\ WF_vars(\E killFails \in BOOLEAN : TimeoutFires(killFails))

\* ================================================================== claims
OneOfThreeRan == closeEmitted \/ errorEmitted \/ timer = "fired"

\* C1: for every interleaving of 'close', 'error' and the timer, the promise of
\* executeCLICommand is settled exactly once: as soon as one of the three has
\* run there has been exactly one resolve/reject call, and no later step calls
\* resolve/reject again, changes the settled value or sends a signal.
C1_SettledExactlyOnce ==
  /\ [](settleCalls <= 1 /\ (OneOfThreeRan <=> settleCalls = 1)
        /\ (settleCalls = 1 <=> promise.state # "pending"))
  /\ [][settleCalls = 1 =>
          settleCalls' = 1 /\ promise' = promise /\ killCount' = killCount]_vars

\* a later listener has run after the one that settled the promise
C1_Witness ==
  timer = "fired" /\ closeEmitted /\ errorEmitted /\ settleCalls = 1

\* C2: once the timer has fired on a child that had not closed, the runner's
\* promise is rejected with the timeout error, generate ends with that error
\* and with no result, and kill has been called exactly once, whatever data
\* or 'close' arrives afterwards; without a timeout there is no kill.
C2_TimeoutKillsOnce ==
  /\ killCount = (IF timer = "fired" THEN 1 ELSE 0)
  /\ timer = "fired" =>
       /\ promise.state = "rejected"
       /\ ErrorKind(promise.text) = "TimeoutExceeded"
       /\ pc = "done" =>
            outcome.state = "error" /\ ErrorKind(outcome.text) = "TimeoutExceeded"

\* generate has failed with the timeout, and output and 'close' have arrived
C2_Witness ==
  /\ timer = "fired" /\ pc = "done" /\ closeEmitted
  /\ Len(emitted.out) = MaxChunks /\ Len(emitted.err) = MaxChunks
  /\ killCount = 1 /\ outcome.state = "error"

\* C3: every call of the process runner is eventually settled, provided the
\* timer fires unless cleared, even if the child never closes.
C3_RunnerEventuallySettles ==
  (spawned # <<>>) ~> (promise.state # "pending")

\* the child is still running and never closed, and the call is settled
C3_Witness ==
  child = "running" /\ ~closeEmitted /\ promise.state = "rejected" /\ pc = "done"

\* C4: when generate has returned from a Claude code request that staged the
\* instruction file, the removal step has run (it removed the file or failed
\* to), whatever the ending was, and if it did not fail the file is absent.
C4_StagedFileRemoved ==
  pc = "done" /\ claudeFileCopied =>
    /\ cleanup \in {"removed", "failed"}
    /\ cleanup = "removed" => workspaceFile = "absent"

\* the invocation ended by timeout and the staged file was removed
C4_Witness ==
  /\ pc = "done" /\ claudeFileCopied /\ timer = "fired"
  /\ cleanup = "removed" /\ workspaceFile = "absent"

\* C5: for both CLI agents a non-zero exit makes generate fail with
\* AgentExecutionFailed, and the error carries the captured stderr and the
\* captured stdout.
C5_NonZeroExitCarriesOutput ==
  pc = "done" /\ promise.state = "fulfilled" /\ promise.exitCode # 0 =>
    /\ outcome.state = "error"
    /\ ErrorKind(outcome.text) = "AgentExecutionFailed"
    /\ "stderr" \in DOMAIN outcome.carried
    /\ outcome.carried.stderr = promise.stderr
    /\ "stdout" \in DOMAIN outcome.carried
    /\ outcome.carried.stdout = promise.stdout

Supported ==
  request.taskType \in {"code", "text"} /\ request.aiProvider \in {"claudecode", "codex"}

\* C6: a supported request whose credential matches neither prefix fails with
\* UnrecognizedCredential, and no child is spawned and no hosted endpoint is
\* called for it.
C6_UnrecognizedBeforeInvocation ==
  Supported /\ ~detectAIProvider(request.apiKey).ok =>
    /\ spawned = <<>>
    /\ apiCalls = <<>>
    /\ pc = "done" =>
         outcome.state = "error" /\ ErrorKind(outcome.text) = "UnrecognizedCredential"

\* the credential is well formed but of the other provider than the agent
WrongProvider ==
  /\ request.taskType = "code" /\ request.aiProvider \in {"claudecode", "codex"}
  /\ detectAIProvider(request.apiKey).ok
  /\ detectAIProvider(request.apiKey).provider # request.aiProvider

\* C7: a code request with a well-formed credential of the other provider
\* fails with InvalidCredentialFormat, and no child is spawned and no
\* instruction file is staged for it.
C7_WrongProviderRejected ==
  WrongProvider =>
    /\ spawned = <<>>
    /\ workspaceFile = "absent" /\ ~claudeFileCopied
    /\ pc \in {"received", "done"}
    /\ pc = "done" =>
         outcome.state = "error" /\ ErrorKind(outcome.text) = "InvalidCredentialFormat"

\* an OpenAI-style key was given to the Claude agent and generate has failed
C7_Witness ==
  /\ WrongProvider /\ pc = "done" /\ request.aiProvider = "claudecode"
  /\ sourceExists /\ outcome.state = "error"

\* p is a prefix of s, unit by unit
HasPrefix(s, p) == \A i \in 1..Len(p) : i <= Len(s) /\ s[i] = p[i]

\* C8: detectAIProvider classifies every credential: "sk-ant-..." is the
\* Anthropic-style provider, "sk-..." that is not "sk-ant-..." is the
\* OpenAI-style provider, anything else fails with UnrecognizedCredential;
\* and no credential passes both validateAnthropicKey and validateOpenAIKey.
C8_ClassifierTotal ==
  fn.op = "classify" /\ fn.step = 1 =>
    /\ HasPrefix(fn.arg, SK_ANT) => fn.ret.ok /\ fn.ret.provider = "claudecode"
    /\ HasPrefix(fn.arg, SK) /\ ~HasPrefix(fn.arg, SK_ANT) =>
         fn.ret.ok /\ fn.ret.provider = "codex"
    /\ ~HasPrefix(fn.arg, SK) =>
         ~fn.ret.ok /\ ErrorKind(fn.ret.text) = "UnrecognizedCredential"
    /\ ~(fn.anthropicKey /\ fn.openAIKey)
    /\ fn.anthropicKey <=> HasPrefix(fn.arg, SK_ANT)
    /\ fn.openAIKey <=> (fn.ret.ok /\ fn.ret.provider = "codex")

\* a credential one unit short of the longer prefix was classified
C8_Witness ==
  /\ fn.op = "classify" /\ fn.step = 1
  /\ fn.arg = SubSeq(SK_ANT, 1, Len(SK_ANT) - 1) \o <<"x">>
  /\ fn.ret.ok /\ fn.ret.provider = "codex"

\* the fixed default and the allow-list of each provider and mode
DefaultOf(mode) ==
  CASE mode = "cli-anthropic" -> "claude-sonnet-4-20250514"
    [] mode = "api-anthropic" -> "claude-sonnet-4-20250514"
    [] mode = "cli-openai" -> "codex-mini-latest"
    [] mode = "api-openai" -> "gpt-4o-mini"
AllowListOf(mode) ==
  IF mode \in {"cli-anthropic", "api-anthropic"}
    THEN {"claude-sonnet-4-20250514", "claude-opus-4-20250514", "claude-3-7-sonnet-20250219"}
    ELSE {"codex-mini-latest", "o4-mini"}

\* C9: each of the four selectors returns its own default for an absent, empty
\* or "default" model and for a model outside its allow-list, and returns a
\* model inside its allow-list unchanged.
C9_SelectorContract ==
  fn.op = "select" /\ fn.step = 1 =>
    IF fn.arg \in {UNDEFINED, "", "default"} THEN fn.ret = DefaultOf(fn.mode)
    ELSE IF fn.arg \notin AllowListOf(fn.mode) THEN fn.ret = DefaultOf(fn.mode)
    ELSE fn.ret = fn.arg

\* a model of the other provider's allow-list was replaced by the default
C9_Witness ==
  /\ fn.op = "select" /\ fn.step = 1 /\ fn.mode = "api-openai"
  /\ fn.arg = "claude-opus-4-20250514" /\ fn.ret = "gpt-4o-mini"

\* C10: sanitizePrompt applied to its own output returns that output.
C10_SanitizeIdempotent ==
  fn.op = "sanitize" /\ fn.step = 2 => fn.ret2 = fn.ret

\* removing U+FFFD joined a surrogate pair, and the second pass kept it
C10_Witness ==
  /\ fn.op = "sanitize" /\ fn.step = 2
  /\ fn.arg = <<"L", "H", "R", "L">> /\ fn.ret = <<"H", "L">>

\* C11: the output of sanitizePrompt contains no U+FFFD, no high surrogate
\* that is not immediately followed by a low one and no low surrogate that is
\* not immediately preceded by a high one.
C11_SanitizeWellFormed ==
  fn.op = "sanitize" /\ fn.step >= 1 =>
    \A i \in 1..Len(fn.ret) :
      /\ fn.ret[i] # "R"
      /\ fn.ret[i] = "H" => i < Len(fn.ret) /\ fn.ret[i + 1] = "L"
      /\ fn.ret[i] = "L" => i > 1 /\ fn.ret[i - 1] = "H"

\* removing U+FFFD and a lone high surrogate made a pair out of distant units
C11_Witness ==
  /\ fn.op = "sanitize" /\ fn.step = 1
  /\ fn.arg = <<"H", "H", "R", "L">> /\ fn.ret = <<"H", "L">>

\* the text of a sequence of chunks: each chunk decoded, in order of arrival
RECURSIVE TextOf(_)
TextOf(chunks) ==
  IF chunks = <<>> THEN <<>> ELSE Decode(Head(chunks)) \o TextOf(Tail(chunks))

ClosedBeforeTimeout ==
  closeEmitted /\ timer # "fired" /\ ~errorEmitted

C13_ExitStatusPassedUp ==
  ClosedBeforeTimeout =>
    /\ promise.state = "fulfilled"
    /\ [isNull |-> FALSE, code |-> promise.exitCode]
         = [isNull |-> exitStatus.isNull, code |-> exitStatus.code]

\* the least k with 4 * k >= n
CeilQuarter(n) == CHOOSE k \in 0..n : 4 * k >= n /\ \A j \in 0..n : 4 * j >= n => k <= j

\* C14: every successful CLI-backed code generation, Claude or Codex, reports
\* the length-based usage estimate: ceil(len(prompt)/4), ceil(len(stdout)/4)
\* and their sum.
C14_UsageIsLengthEstimate ==
  pc = "done" /\ request.taskType = "code" /\ outcome.state = "result" =>
    /\ outcome.usage.inputTokens = CeilQuarter(Len(request.prompt))
    /\ outcome.usage.outputTokens = CeilQuarter(Len(promise.stdout))
    /\ outcome.usage.totalTokens
         = CeilQuarter(Len(request.prompt)) + CeilQuarter(Len(promise.stdout))

\* C15: in any sequence of text requests on one AIService, the hosted API call
\* made for a request is authenticated with that request's own credential.
C15_CallUsesOwnCredential ==
  pc = "awaitAPI" => apiCalls[Len(apiCalls)].apiKey = request.apiKey

\* C16: with two concurrent Claude code requests on one workspace, the file a
\* request staged is still there while that request is waiting for its running
\* child, i.e. the other request's cleanup has not removed it.
C16_NoWorkspaceInterference ==
  /\ pc = "awaitCLI" /\ claudeFileCopied /\ child = "running" =>
       workspaceFile # "absent"
  /\ peer.pc = "awaitCLI" /\ peer.claudeFileCopied /\ peer.child = "running" =>
       workspaceFile # "absent"

\* the invocation of a returned request went through without any failure
InvocationClean ==
  IF request.taskType = "code"
    THEN /\ timer \notin {"armed", "fired"}
         /\ ~errorEmitted
         /\ closeEmitted
         /\ exitStatus.known /\ (exitStatus.isNull \/ exitStatus.code = 0)
    ELSE /\ apiCalls # <<>>
         /\ apiCalls[Len(apiCalls)].status = "ok"

\* C17: a request that has ended has either returned a result or raised an
\* error, it has a result only if its invocation saw no timeout, no spawn
\* failure, no non-zero exit and no provider error, and nothing that happens
\* afterwards changes what it ended with; before it ends it has neither.
C17_OneTerminalState ==
  /\ [](/\ pc = "done" <=> outcome.state \in {"result", "error"}
        /\ pc # "done" <=> outcome.state = "none"
        /\ outcome.state = "result" => InvocationClean)
  /\ [][pc = "done" => pc' = "done" /\ outcome' = outcome]_vars

\* a failed request, whose child closed with exit code 0 after the timeout
C17_Witness ==
  /\ pc = "done" /\ outcome.state = "error" /\ timer = "fired"
  /\ closeEmitted /\ ~exitStatus.isNull /\ exitStatus.code = 0

\* C18: a request whose task kind is neither code nor text fails with
\* UnsupportedTaskKind whatever its provider and credential are, and nothing
\* is staged, spawned, called or cached for it.
C18_UnsupportedTaskKind ==
  request.taskType \notin {"code", "text"} =>
    /\ pc \in {"received", "done"}
    /\ spawned = <<>> /\ child = "none"
    /\ apiCalls = <<>> /\ anthropic = NoClient /\ openai = NoClient
    /\ workspaceFile = "absent" /\ ~claudeFileCopied /\ cleanup = "none"
    /\ pc = "done" =>
         outcome.state = "error" /\ ErrorKind(outcome.text) = "UnsupportedTaskKind"

\* an unsupported task kind with an unsupported provider and a bad credential
C18_Witness ==
  /\ pc = "done" /\ request.taskType = "image" /\ request.aiProvider = "gemini"
  /\ ~detectAIProvider(request.apiKey).ok /\ outcome.state = "error"

\* C19: the child's environment is the parent environment, overlaid with the
\* runner's fixed flags, overlaid with the env the caller passed: a name the
\* caller set has the caller's value, otherwise a fixed flag has its fixed
\* value, otherwise the name has the parent's value.
C19_CallerOverridesWin ==
  fn.op = "env" /\ fn.step = 1 =>
    /\ DOMAIN fn.ret = DOMAIN fn.arg \cup DOMAIN FIXED_FLAGS \cup DOMAIN fn.options
    /\ \A n \in DOMAIN fn.ret :
         fn.ret[n] = IF n \in DOMAIN fn.options THEN fn.options[n]
                     ELSE IF n \in DOMAIN FIXED_FLAGS THEN FIXED_FLAGS[n]
                     ELSE fn.arg[n]

\* C20: the child's stdin is a pipe exactly when a payload was given to the
\* runner, and then it receives exactly the payload, of any length, and is
\* closed; without a payload stdin is not connected.
C20_StdinIffPayload ==
  \A i \in DOMAIN spawned :
    /\ spawned[i].input.given <=> spawned[i].stdin = "pipe"
    /\ spawned[i].input.given =>
         spawned[i].written = spawned[i].input.text /\ spawned[i].ended
    /\ ~spawned[i].input.given => spawned[i].stdin = "ignore"

\* the failure kinds whose errors the caller is to tell apart by type
TypedKinds ==
  {"InvalidCredentialFormat", "SpawnFailure", "TimeoutExceeded", "AgentExecutionFailed"}

\* C21: an error generate raises for a credential-format failure, a spawn
\* failure, a timeout or a non-zero agent exit has its kind as its type (its
\* class), so that errors of different kinds are of different types.
C21_FailuresAreTyped ==
  pc = "done" /\ outcome.state = "error" /\ ErrorKind(outcome.text) \in TypedKinds =>
    outcome.class = ErrorKind(outcome.text)

\* what the Claude strategy ended with is what the settled runner promise alone
\* gives: its rejection, the failure for a non-zero exit, or the result
OutcomeFollowsInvocation ==
  /\ promise.state = "rejected" =>
       /\ outcome.state = "error"
       /\ outcome.text = promise.text /\ outcome.carried = promise.carried
  /\ promise.state = "fulfilled" /\ promise.exitCode # 0 =>
       /\ outcome.state = "error"
       /\ ErrorKind(outcome.text) = "AgentExecutionFailed"
       /\ outcome.carried.exitCode = promise.exitCode
  /\ promise.state = "fulfilled" /\ promise.exitCode = 0 =>
       /\ outcome.state = "result"
       /\ outcome.content = Trim(promise.stdout)

\* a Claude code request has returned and its finally block tried the removal
ClaudeRemovalTried ==
  /\ pc = "done" /\ request.taskType = "code" /\ request.aiProvider = "claudecode"
  /\ cleanup \in {"removed", "failed"}

\* C22: what a Claude code request ends with is determined by how its
\* invocation ended (rejected, non-zero exit, exit 0) and is the same whether
\* the removal of the staged file succeeded or failed.
C22_CleanupNeverEscalates ==
  ClaudeRemovalTried => OutcomeFollowsInvocation

\* the removal failed, the file is left behind, and the result was returned
C22_Witness ==
  /\ ClaudeRemovalTried /\ cleanup = "failed" /\ workspaceFile # "absent"
  /\ outcome.state = "result" /\ outcome.content = <<"d", "o", "n", "e">>

\* the Claude strategy got past the credential check, found the source file
\* and failed to read it or to write it into the workspace
StagingFailed ==
  /\ request.taskType = "code" /\ request.aiProvider = "claudecode"
  /\ validateAnthropicKey(request.apiKey)
  /\ pc # "received" /\ sourceExists /\ ~claudeFileCopied

\* C23: when staging the instruction file fails, the Claude agent is still
\* invoked (once) for the request, what the request ends with is what the
\* invocation alone gives, and the finally block attempts no removal.
C23_StagingFailureNonFatal ==
  StagingFailed =>
    /\ Len(spawned) = 1 /\ spawned[1].command = "claude"
    /\ cleanup \notin {"removed", "failed"}
    /\ pc = "done" => cleanup = "skipped" /\ OutcomeFollowsInvocation

\* staging failed, the agent ran to exit code 0 and its result was returned
C23_Witness ==
  /\ StagingFailed /\ pc = "done" /\ cleanup = "skipped"
  /\ Len(spawned) = 1 /\ outcome.state = "result" /\ workspaceFile = "absent"

\* the names of the values interpolated into the error messages
InterpolatedValues ==
  {"none", "exitCode", "stderr", "stdout", "timeout", "message", "aiProvider", "taskType"}

\* the environment variable through which each agent is given the credential
KeyVariable(command) ==
  IF command = "claude" THEN "ANTHROPIC_API_KEY" ELSE "OPENAI_API_KEY"

C25_SpawnFailureBeforeStreams ==
  promise.state = "rejected" /\ ErrorKind(promise.text) = "SpawnFailure" =>
    /\ spawned[Len(spawned)].listeners \cap {"stdout.data", "stderr.data"} = {}
    /\ stdout = <<>> /\ stderr = <<>>
    /\ spawned[Len(spawned)].written = <<>> /\ ~spawned[Len(spawned)].ended

\* C26: the selector of the Claude agent returns every Anthropic model of the
\* documented enum unchanged and the selector of the Codex agent every OpenAI
\* model of it, and for an absent or "default" model each returns the
\* documented default of its provider.
C26_DocumentedModelsAccepted ==
  fn.op = "select" /\ fn.step = 1 =>
    /\ fn.mode = "cli-anthropic" =>
         /\ fn.arg \in DOCUMENTED_ANTHROPIC_MODELS => fn.ret = fn.arg
         /\ fn.arg \in {UNDEFINED, "default"} => fn.ret = DOCUMENTED_ANTHROPIC_DEFAULT
    /\ fn.mode = "cli-openai" =>
         /\ fn.arg \in DOCUMENTED_OPENAI_MODELS => fn.ret = fn.arg
         /\ fn.arg \in {UNDEFINED, "default"} => fn.ret = DOCUMENTED_OPENAI_DEFAULT

\* C27: every spawn made for a code request follows the agent's convention.
\* Claude: the arguments are exactly the print flag and the permission-bypass
\* flag, and the child reads the sanitized prompt from stdin (a pipe that is
\* written and ended; nothing to read when the sanitized prompt is empty).
\* Codex: the arguments are the quiet flag, the edit-mode flag, the model flag
\* with the selected model and the sanitized prompt last, and stdin is not
\* connected.
C27_PromptDelivery ==
  \A i \in DOMAIN spawned :
    /\ request.aiProvider = "claudecode" =>
         /\ spawned[i].command = "claude"
         /\ spawned[i].args = <<"-p", "--dangerously-skip-permissions">>
         /\ spawned[i].written = sanitizePrompt(request.prompt)
         /\ spawned[i].written # <<>> => spawned[i].stdin = "pipe" /\ spawned[i].ended
    /\ request.aiProvider = "codex" =>
         /\ spawned[i].command = "codex"
         /\ spawned[i].args
              = <<"-q", "-a", "auto-edit", "-m", validateAndGetOpenAIModel(request.model),
                  sanitizePrompt(request.prompt)>>
         /\ spawned[i].stdin = "ignore" /\ spawned[i].written = <<>>

\* the Claude agent was given a prompt the sanitizer had shortened
C27_Witness ==
  /\ request.aiProvider = "claudecode" /\ request.prompt = <<"H", "R", "c">>
  /\ Len(spawned) = 1 /\ spawned[1].stdin = "pipe" /\ spawned[1].written = <<"c">>

\* C28: a child that was terminated by a signal ('close' with a null exit code)
\* is not reported by the runner as exit code 0, and a code request returns a
\* result only if its child terminated by itself with exit status 0.
C28_ResultOnlyAfterExitZero ==
  /\ exitStatus.known /\ exitStatus.isNull /\ promise.state = "fulfilled" =>
       promise.exitCode # 0
  /\ pc = "done" /\ request.taskType = "code" /\ outcome.state = "result" =>
       exitStatus.known /\ ~exitStatus.isNull /\ exitStatus.code = 0

\* C29: whatever model it is given, each of the four selectors returns a
\* member of the allow-list it validates against; in particular the default
\* it returns for an absent model is in that allow-list.
C29_SelectedModelAllowed ==
  fn.op = "select" /\ fn.step = 1 => fn.ret \in AllowListOf(fn.mode)

\* C30: when a Claude code request on a workspace that has its own CLAUDE.md
\* has returned, with whatever outcome, that file is still there with the
\* content it had before the request.
C30_OwnInstructionFileKept ==
  pc = "done" /\ request.taskType = "code" /\ request.aiProvider = "claudecode" =>
    workspaceFile = "own"

\* C31: once the runner has resolved through 'close' or 'error', i.e. one of
\* them has run and the timer had not fired, the timer is cancelled and kill
\* has not been called; and from then on the timer stays cancelled and no
\* step calls kill.
C31_NoKillAfterClose ==
  /\ []((closeEmitted \/ errorEmitted) /\ timer # "fired" =>
          timer = "cleared" /\ killCount = 0)
  /\ [][timer = "cleared" => timer' = "cleared" /\ killCount' = 0]_vars

\* the child wrote its output and closed before the timeout, and the request
\* returned its result
C31_Witness ==
  /\ ClosedBeforeTimeout /\ timer = "cleared" /\ killCount = 0
  /\ pc = "done" /\ outcome.state = "result" /\ Len(emitted.out) = MaxChunks

\* C32: in every result generate returns, on each of the four paths, the
\* total of the usage is the sum of its input and output counts, and the
\* three counts are non-negative.
C32_UsageTotalIsSum ==
  pc = "done" /\ outcome.state = "result" =>
    /\ outcome.usage.totalTokens = outcome.usage.inputTokens + outcome.usage.outputTokens
    /\ outcome.usage.inputTokens >= 0
    /\ outcome.usage.outputTokens >= 0
    /\ outcome.usage.totalTokens >= 0

====
